---- MODULE Spec2Model ----
(***************************************************************************)
(* Model of rustaboom (src/main.rs, src/vec3d.rs): a ray marcher that      *)
(* renders a noise-displaced sphere into a PPM file.                       *)
(*                                                                         *)
(* f64 values are held in fixed point: a real r is the integer             *)
(* floor(r * S).  Every arithmetic step of the source is kept,             *)
(* each rounding down to a multiple of 1/S.                                *)
(***************************************************************************)
EXTENDS Integers, Sequences, FiniteSets, TLC

\* ------------------------------------------------------------------------
\* Fixed-point arithmetic standing for f64
\* ------------------------------------------------------------------------
S == 10 * 10 * 10

Abs(a) == IF a < 0 THEN -a ELSE a

FMax(a, b) == IF a >= b THEN a ELSE b

FMin(a, b) == IF a <= b THEN a ELSE b

\* a * b on f64: floor(a*b/S), the larger operand split so that no
\* intermediate product leaves the 32-bit integer range
FMulSplit(a, b) == (a \div S) * b + ((a % S) * b) \div S

FMul(a, b) == IF Abs(a) >= Abs(b) THEN FMulSplit(a, b) ELSE FMulSplit(b, a)

\* a / b on f64
FDiv(a, b) == IF b > 0 THEN (a * S) \div b ELSE -((a * S) \div (-b))

\* f64::floor, result counted in whole units
Floor(a) == a \div S

RECURSIVE SqrtIter(_, _, _)
SqrtIter(n, lo, hi) ==
    IF lo >= hi THEN lo
    ELSE LET mid == (lo + hi + 1) \div 2
         IN IF mid * mid <= n THEN SqrtIter(n, mid, hi)
                              ELSE SqrtIter(n, lo, mid - 1)

\* largest r with r * r <= n
ISqrt(n) == SqrtIter(n, 0, 46340)

\* ------------------------------------------------------------------------
\* vec3d.rs
\* ------------------------------------------------------------------------
Vec3d(a, b, c) == [x |-> a, y |-> b, z |-> c]

VAdd(a, b) == Vec3d(a.x + b.x, a.y + b.y, a.z + b.z)

VSub(a, b) == Vec3d(a.x - b.x, a.y - b.y, a.z - b.z)

\* impl Mul<f64> for Vec3d
VScale(a, k) == Vec3d(FMul(a.x, k), FMul(a.y, k), FMul(a.z, k))

\* Vec3d::dot
Dot(a, b) == FMul(a.x, b.x) + FMul(a.y, b.y) + FMul(a.z, b.z)

\* components beyond SqrtRange are scaled down before squaring, as a float
\* keeps fewer absolute digits for a larger magnitude
SqrtRange == 26000

\* eucl: sqrt(x*x + y*y + z*z)
Eucl(a, b, c) ==
    LET m == FMax(Abs(a), FMax(Abs(b), Abs(c)))
        k == m \div SqrtRange + 1
        a1 == a \div k
        b1 == b \div k
        c1 == c \div k
    IN k * ISqrt(a1 * a1 + b1 * b1 + c1 * c1)

\* Vec3d::length
Length(v) == Eucl(v.x, v.y, v.z)

\* Vec3d::normalized
Normalized(v) == VScale(v, FDiv(S, Length(v)))

\* vec3d::lerp: a + (b - a) * d.max(0.).min(1.)
VLerp(a, b, d) == VAdd(a, VScale(VSub(b, a), FMin(FMax(d, 0), S)))

\* ------------------------------------------------------------------------
\* main.rs: palette
\* ------------------------------------------------------------------------
SPHERE_RADIUS == 1500

NOISE_AMPLITUDE == 1000

yellow == Vec3d(1700, 1300, 1000)

orange == Vec3d(1000, 600, 0)

red == Vec3d(1000, 0, 0)

darkgray == Vec3d(200, 200, 200)

gray == Vec3d(400, 400, 400)

\* the four lerp calls of palette_fire, x being the clamped argument
Segment0(x) == VLerp(gray, darkgray, FMul(x, 4 * S))

Segment1(x) == VLerp(darkgray, red, FMul(x, 4 * S) - S)

\* a variant with the offset of the segment before
Segment2Shifted(x) == VLerp(red, orange, FMul(x, 4 * S) - S)

Segment2(x) == VLerp(red, orange, FMul(x, 4 * S) - 2 * S)

Segment3(x) == VLerp(orange, yellow, FMul(x, 4 * S) - 4 * S)

palette_fire(d) ==
    LET x == FMax(0, FMin(S, d))
    IN IF x < 250 THEN Segment0(x)
       ELSE IF x < 500 THEN Segment1(x)
       ELSE IF x < 750 THEN Segment2(x)
       ELSE Segment3(x)

\* ------------------------------------------------------------------------
\* main.rs: noise
\* ------------------------------------------------------------------------
\* a variant without the clamp of the weight
lerpUnclamped(v0, v1, d) == v0 + FMul(v1 - v0, d)

\* fn lerp
lerp(v0, v1, d) == v0 + FMul(v1 - v0, FMax(0, FMin(S, d)))

\* f64::sin of a whole number n, in ten-thousandths: n is reduced modulo
\* 2*pi, folded into [-pi/2, pi/2], and the sine taken by its series up to
\* y^7 in Horner form
SinScale == 10000

TwoPi == 62832

SinArg(n) == ((n % TwoPi) * SinScale) % TwoPi

SinFold(a) ==
    IF 4 * a > 3 * TwoPi THEN a - TwoPi
    ELSE IF 4 * a > TwoPi THEN TwoPi \div 2 - a
    ELSE a

SinHorner(y, y2) ==
    (y * (SinScale
          - ((y2 * (SinScale
                    - ((y2 * (SinScale - y2 \div 42)) \div SinScale) \div 20))
             \div SinScale) \div 6))
    \div SinScale

SinSeries(y) == SinHorner(y, (y * y) \div SinScale)

Sin(n) == FMax(-SinScale, FMin(SinScale, SinSeries(SinFold(SinArg(n)))))

\* x - x.floor()
Frac(x) == x - Floor(x) * S

\* fn hash: x = sin(n) * 43758.5453; x - floor(x)
hash(n) == Frac((Sin(n) * 43758) \div (SinScale \div S))

\* fn noise, line 38: p, counted in whole units
Cell(v) == Vec3d(Floor(v.x), Floor(v.y), Floor(v.z))

\* line 39: f = x - p
Fract(v, p) == Vec3d(v.x - p.x * S, v.y - p.y * S, v.z - p.z * S)

\* line 40: f = f * (f.dot(Vec3d::new(3., 3., 3.) - f * 2.))
Smooth(f) == VScale(f, Dot(f, VSub(Vec3d(3 * S, 3 * S, 3 * S), VScale(f, 2 * S))))

\* line 41: n = p.dot(Vec3d::new(1., 57., 113.))
LatticeIndex(p) == p.x + 57 * p.y + 113 * p.z

\* lines 42-54: the nested lerp calls
Trilinear(n, f) ==
    lerp(lerp(lerp(hash(n), hash(n + 1), f.x),
              lerp(hash(n + 57), hash(n + 58), f.x),
              f.y),
         lerp(lerp(hash(n + 113), hash(n + 114), f.x),
              lerp(hash(n + 170), hash(n + 171), f.x),
              f.y),
         f.z)

noise(v) == Trilinear(LatticeIndex(Cell(v)), Smooth(Fract(v, Cell(v))))

\* fn rotate
rotate(v) ==
    Vec3d(Dot(Vec3d(0, 800, 600), v),
          Dot(Vec3d(-800, 360, -480), v),
          Dot(Vec3d(-600, -480, 640), v))

\* lines 67-75 of fractal_brownian_motion, p being rotate(x); the octave
\* weights 0.5, 0.25, 0.125, 0.0625 and the divisor 0.9375 are held in
\* ten-thousandths
Octaves(p) ==
    (5000 * noise(p)
     + 2500 * noise(VScale(p, 2320))
     + 1250 * noise(VScale(VScale(p, 2320), 3030))
     + 625 * noise(VScale(VScale(VScale(p, 2320), 3030), 2610)))
    \div 9375

\* fn fractal_brownian_motion
fractal_brownian_motion(v) == Octaves(rotate(v))

\* a variant with the displacement pushing the surface outwards
signed_distance_outwards(p) ==
    LET displacement == FMul(fractal_brownian_motion(VScale(p, 3400)), NOISE_AMPLITUDE)
    IN Length(p) - (SPHERE_RADIUS + displacement)

\* fn signed_distance
signed_distance(p) ==
    LET displacement == -FMul(fractal_brownian_motion(VScale(p, 3400)), NOISE_AMPLITUDE)
    IN Length(p) - (SPHERE_RADIUS + displacement)

\* ------------------------------------------------------------------------
\* main.rs: sphere_trace
\* ------------------------------------------------------------------------
\* for _i in 0..128
MaxSteps == 128

\* a variant that squares the direction where the origin belongs
EarlyDiscardOfDir(orig, dir) ==
    Dot(dir, dir) - FMul(Dot(orig, dir), Dot(orig, dir))
        > FMul(SPHERE_RADIUS, SPHERE_RADIUS)

\* orig.dot(orig) - (orig.dot(dir)).powi(2) > SPHERE_RADIUS.powi(2)
EarlyDiscard(orig, dir) ==
    Dot(orig, orig) - FMul(Dot(orig, dir), Dot(orig, dir))
        > FMul(SPHERE_RADIUS, SPHERE_RADIUS)

\* a variant without the minimum step
AdvanceUnfloored(p, dir, dist) == VAdd(p, VScale(dir, FMul(dist, 100)))

\* *pos += dir * (d * 0.1).max(0.01)
Advance(p, dir, dist) == VAdd(p, VScale(dir, FMax(FMul(dist, 100), 10)))

\* the loop of sphere_trace from iteration k on, *pos being p
RECURSIVE March(_, _, _)

\* lines 91-94: the iteration once d is known
MarchOn(p, dir, k, dist) ==
    IF dist < 0 THEN [hit |-> TRUE, pos |-> p]
    ELSE March(Advance(p, dir, dist), dir, k + 1)

March(p, dir, k) ==
    IF k = MaxSteps THEN [hit |-> FALSE, pos |-> p]
    ELSE MarchOn(p, dir, k, signed_distance(p))

\* fn sphere_trace; out is the value *pos holds at the call
sphere_trace(orig, dir, out) ==
    IF EarlyDiscard(orig, dir) THEN [hit |-> FALSE, pos |-> out]
    ELSE March(orig, dir, 0)

\* lines 102-105 of distance_field_normal, d being signed_distance(pos)
Gradient(p, dist, eps) ==
    Normalized(Vec3d(signed_distance(VAdd(p, Vec3d(eps, 0, 0))) - dist,
                     signed_distance(VAdd(p, Vec3d(0, eps, 0))) - dist,
                     signed_distance(VAdd(p, Vec3d(0, 0, eps))) - dist))

\* fn distance_field_normal
distance_field_normal(p) == Gradient(p, signed_distance(p), 100)

\* ------------------------------------------------------------------------
\* main.rs: main
\* ------------------------------------------------------------------------
WIDTH == 4

HEIGHT == 3

NumPixels == WIDTH * HEIGHT

Pixels == 0 .. NumPixels - 1

\* (fov / 2.).tan() with fov = PI / 3
TanHalfFov == 577

\* the camera position [0., 0., 3.]
Camera == Vec3d(0, 0, 3 * S)

Zero == Vec3d(0, 0, 0)

Background == Vec3d(200, 700, 800)

\* the ray direction of pixel idx
PixelDir(idx) ==
    LET id == (idx % WIDTH) * S
        jd == (idx \div WIDTH) * S
        w == WIDTH * S
        h == HEIGHT * S
        dir_x == (id + 500) - FDiv(w, 2 * S)
        dir_y == -(jd + 500) + FDiv(h, 2 * S)
        dir_z == FDiv(-h, FMul(2 * S, TanHalfFov))
    IN Normalized(Vec3d(dir_x, dir_y, dir_z))

\* the hit branch of the closure
Shade(hit) ==
    LET noise_level == FDiv(SPHERE_RADIUS - Length(hit), NOISE_AMPLITUDE)
        light_dir == Normalized(VSub(Vec3d(10 * S, 10 * S, 10 * S), hit))
        light_intensity == FMax(400, Dot(light_dir, distance_field_normal(hit)))
    IN VScale(palette_fire(FMul(-250 + noise_level, 2 * S)), light_intensity)

\* a variant that lights the background like a surface in shadow
ColourFromLitMiss(r) == IF r.hit THEN Shade(r.pos) ELSE VScale(Background, 400)

\* lines 127-138: the value assigned to *frame after a sphere_trace outcome
ColourFrom(r) == IF r.hit THEN Shade(r.pos) ELSE Background

\* the value the closure stores into *frame for index idx
PixelColour(idx) == ColourFrom(sphere_trace(Camera, PixelDir(idx), Zero))

\* sphere_trace and the closure are pure: their values per index, computed once
TraceOf == [idx \in Pixels |-> sphere_trace(Camera, PixelDir(idx), Zero)]

ColourOf == [idx \in Pixels |-> PixelColour(idx)]

\* a variant of the cast that keeps the low eight bits
AsU8Wrapping(v) == (v \div S) % 256

\* (255. * frame[j]) as u8: the cast truncates and saturates
AsU8(v) == IF v < 0 THEN 0 ELSE IF v >= 255 * S THEN 255 ELSE v \div S

Component(v, j) == IF j = 0 THEN v.x ELSE IF j = 1 THEN v.y ELSE v.z

PixelByte(v, j) == AsU8(255 * Component(v, j))

\* the P6 header line written before the pixels
Header == <<"P6", WIDTH, HEIGHT, 255>>

\* ------------------------------------------------------------------------
\* State
\* ------------------------------------------------------------------------
VARIABLES
    framebuffer,  \* main: the vector of WIDTH * HEIGHT colours
    next,         \* par_iter_mut: per worker thread, the next index of its range
    local,        \* closure: per worker thread, the outcome of its sphere_trace call
    writes,       \* per index, how many times *frame has been assigned
    missed,       \* the indices whose sphere_trace call returned false
    phase,        \* main: "render", "header", "pixels", "closed"
    file,         \* out_r.ppm: the header, then the bytes written so far
    pc,           \* position inside the function under study
    pix,          \* sphere_trace study: the pixel whose ray is traced
    useGuard,     \* sphere_trace study: whether the early discard is compiled in
    pos,          \* sphere_trace: *pos
    i,            \* sphere_trace: the loop counter _i
    evals,        \* sphere_trace: calls of signed_distance so far
    trail,        \* sphere_trace: the positions evaluated and their distances
    ret,          \* sphere_trace: the value returned
    frame,        \* closure: the value assigned to *frame
    t,            \* palette_fire study: the argument
    arg,          \* noise study: the argument
    colour,       \* palette_fire study: the value returned
    nval,         \* noise study: noise(arg)
    fval          \* noise study: fractal_brownian_motion(arg)

mainVars == <<framebuffer, next, local, writes, missed, phase, file>>

traceVars == <<pix, useGuard, pos, i, evals, trail, ret, frame>>

funVars == <<t, arg, colour, nval, fval>>

vars == <<mainVars, traceVars, funVars, pc>>

\* ------------------------------------------------------------------------
\* main: the parallel pixel loop and the file writer
\* ------------------------------------------------------------------------
\* threads of the rayon pool
NumWorkers == 2

Workers == 0 .. NumWorkers - 1

\* par_iter_mut splits the index range into one contiguous range per thread
ChunkStart(w) == (w * NumPixels) \div NumWorkers

ChunkEnd(w) == ((w + 1) * NumPixels) \div NumWorkers

NoTrace == [called |-> FALSE, hit |-> FALSE, pos |-> Zero]

MainIdle ==
    /\ framebuffer = [idx \in Pixels |-> Zero]
    /\ next = [w \in Workers |-> ChunkStart(w)]
    /\ local = [w \in Workers |-> NoTrace]
    /\ writes = [idx \in Pixels |-> 0]
    /\ missed = {}
    /\ phase = "render"
    /\ file = <<>>

TraceIdle ==
    /\ pix = 0
    /\ useGuard = TRUE
    /\ pos = Zero
    /\ i = 0
    /\ evals = 0
    /\ trail = <<>>
    /\ ret = FALSE
    /\ frame = Zero

FunIdle ==
    /\ t = 0
    /\ arg = Zero
    /\ colour = Zero
    /\ nval = 0
    /\ fval = 0

\* a variant that folds the neighbouring slot into the value stored
StoreFrameBlended(fb, idx, v) ==
    [fb EXCEPT ![idx] = VAdd(v, fb[(idx + 1) % NumPixels])]

\* *frame = v for the slot of index idx
StoreFrame(fb, idx, v) == [fb EXCEPT ![idx] = v]

\* lines 121-131 of the closure: the ray of the index and the sphere_trace call
Begin(w) ==
    /\ phase = "render"
    /\ next[w] < ChunkEnd(w)
    /\ ~local[w].called
    /\ LET r == TraceOf[next[w]]
       IN /\ local' = [local EXCEPT ![w] = [called |-> TRUE, hit |-> r.hit, pos |-> r.pos]]
          /\ missed' = IF r.hit THEN missed ELSE missed \cup {next[w]}
    /\ UNCHANGED <<framebuffer, next, writes, phase, file, traceVars, funVars, pc>>

\* lines 132-138 of the closure: the assignment to *frame
Store(w) ==
    /\ phase = "render"
    /\ local[w].called
    /\ framebuffer' = StoreFrame(framebuffer, next[w], ColourFrom(local[w]))
    /\ writes' = [writes EXCEPT ![next[w]] = @ + 1]
    /\ next' = [next EXCEPT ![w] = @ + 1]
    /\ local' = [local EXCEPT ![w] = NoTrace]
    /\ UNCHANGED <<missed, phase, file, traceVars, funVars, pc>>

\* for_each returns once every index has been processed
Join ==
    /\ phase = "render"
    /\ \A w \in Workers : next[w] = ChunkEnd(w)
    /\ phase' = "header"
    /\ UNCHANGED <<framebuffer, next, local, writes, missed, file, traceVars, funVars, pc>>

\* file.write_all of the header
WriteHeader ==
    /\ phase = "header"
    /\ file' = <<Header>>
    /\ phase' = "pixels"
    /\ UNCHANGED <<framebuffer, next, local, writes, missed, traceVars, funVars, pc>>

\* one iteration of `for j in 0..3` inside `for frame in framebuffer.iter()`
WriteByte ==
    /\ phase = "pixels"
    /\ Len(file) < 1 + 3 * NumPixels
    /\ LET k == Len(file) - 1
       IN file' = Append(file, PixelByte(framebuffer[k \div 3], k % 3))
    /\ UNCHANGED <<framebuffer, next, local, writes, missed, phase, traceVars, funVars, pc>>

\* the end of main
Close ==
    /\ phase = "pixels"
    /\ Len(file) = 1 + 3 * NumPixels
    /\ phase' = "closed"
    /\ UNCHANGED <<framebuffer, next, local, writes, missed, file, traceVars, funVars, pc>>

Init == MainIdle /\ TraceIdle /\ FunIdle /\ pc = "main"

Next ==
    \/ \E w \in Workers : Begin(w)
    \/ \E w \in Workers : Store(w)
    \/ Join
    \/ WriteHeader
    \/ WriteByte
    \/ Close

Spec == Init /\ [][Next]_vars

\* the bytes of pixel idx in the file, once written
FileBytes(idx) == <<file[2 + 3 * idx], file[3 + 3 * idx], file[4 + 3 * idx]>>

Written(idx) == Len(file) >= 4 + 3 * idx

\* ------------------------------------------------------------------------
\* the file writer alone, on framebuffers holding colours outside [0, 1]
\* ------------------------------------------------------------------------
SampleColours ==
    { yellow, VScale(yellow, 400), Background, Zero,
      Vec3d(-100, 1001, 999), Vec3d(1000, -1, 2000), Vec3d(3, 4, 1004),
      Vec3d(1700, -300, 500) }

EncodeInit ==
    /\ \E v \in SampleColours : \E k \in Pixels :
          framebuffer = [idx \in Pixels |-> IF idx = k THEN v ELSE Background]
    /\ next = [w \in Workers |-> ChunkEnd(w)]
    /\ local = [w \in Workers |-> NoTrace]
    /\ writes = [idx \in Pixels |-> 1]
    /\ missed = {}
    /\ phase = "header"
    /\ file = <<>>
    /\ TraceIdle /\ FunIdle /\ pc = "main"

EncodeNext == WriteHeader \/ WriteByte \/ Close

SpecEncode == EncodeInit /\ [][EncodeNext]_vars

\* ------------------------------------------------------------------------
\* sphere_trace and the closure around it, one loop iteration per step
\* ------------------------------------------------------------------------
TraceInit ==
    /\ pix \in Pixels
    /\ useGuard \in BOOLEAN
    /\ pos = Zero
    /\ i = 0
    /\ evals = 0
    /\ trail = <<>>
    /\ ret = FALSE
    /\ frame = Zero
    /\ pc = "entry"
    /\ MainIdle /\ FunIdle

\* lines 84-86: the early discard
EarlyReturn ==
    /\ pc = "entry"
    /\ useGuard
    /\ EarlyDiscard(Camera, PixelDir(pix))
    /\ ret' = FALSE
    /\ pc' = "returned"
    /\ UNCHANGED <<pix, useGuard, pos, i, evals, trail, frame, mainVars, funVars>>

\* line 88: *pos = orig
StartLoop ==
    /\ pc = "entry"
    /\ ~(useGuard /\ EarlyDiscard(Camera, PixelDir(pix)))
    /\ pos' = Camera
    /\ i' = 0
    /\ pc' = "loop"
    /\ UNCHANGED <<pix, useGuard, evals, trail, ret, frame, mainVars, funVars>>

\* lines 91-94: the iteration once d is known
IterateOn(dist) ==
    /\ evals' = evals + 1
    /\ trail' = Append(trail, [p |-> pos, dist |-> dist])
    /\ IF dist < 0
       THEN /\ ret' = TRUE
            /\ pc' = "returned"
            /\ UNCHANGED <<pos, i>>
       ELSE /\ pos' = Advance(pos, PixelDir(pix), dist)
            /\ i' = i + 1
            /\ UNCHANGED <<ret, pc>>

\* lines 89-95: one iteration of the loop
Iterate ==
    /\ pc = "loop"
    /\ i < MaxSteps
    /\ IterateOn(signed_distance(pos))
    /\ UNCHANGED <<pix, useGuard, frame, mainVars, funVars>>

\* line 96: the loop ran out
Exhaust ==
    /\ pc = "loop"
    /\ i = MaxSteps
    /\ ret' = FALSE
    /\ pc' = "returned"
    /\ UNCHANGED <<pix, useGuard, pos, i, evals, trail, frame, mainVars, funVars>>

\* lines 132-135: the hit branch
ShadeHit ==
    /\ pc = "returned"
    /\ ret
    /\ frame' = Shade(pos)
    /\ pc' = "done"
    /\ UNCHANGED <<pix, useGuard, pos, i, evals, trail, ret, mainVars, funVars>>

\* line 137: the miss branch
FillBackground ==
    /\ pc = "returned"
    /\ ~ret
    /\ frame' = Background
    /\ pc' = "done"
    /\ UNCHANGED <<pix, useGuard, pos, i, evals, trail, ret, mainVars, funVars>>

TraceNext ==
    \/ EarlyReturn
    \/ StartLoop
    \/ Iterate
    \/ Exhaust
    \/ ShadeHit
    \/ FillBackground

SpecTrace == TraceInit /\ [][TraceNext]_vars

\* ------------------------------------------------------------------------
\* palette_fire on sampled arguments
\* ------------------------------------------------------------------------
\* arguments sampled every 0.025 from -1.0 on
PaletteSamples == 120

PaletteArgs ==
    {25 * k - 1000 : k \in 0 .. PaletteSamples} \cup {249, 251, 499, 501, 749, 751, 999, 1001, -1, 1}

PaletteInit ==
    /\ t \in PaletteArgs
    /\ arg = Zero
    /\ colour = Zero
    /\ nval = 0
    /\ fval = 0
    /\ pc = "call"
    /\ MainIdle /\ TraceIdle

CallPalette ==
    /\ pc = "call"
    /\ colour' = palette_fire(t)
    /\ pc' = "ret"
    /\ UNCHANGED <<t, arg, nval, fval, mainVars, traceVars>>

SpecPalette == PaletteInit /\ [][CallPalette]_vars

\* ------------------------------------------------------------------------
\* noise and fractal_brownian_motion on sampled points
\* ------------------------------------------------------------------------
NoiseCoords == {-7300, -500, 0, 500, 1250, 250000}

NoiseInit ==
    /\ arg \in {Vec3d(a, b, c) : a \in NoiseCoords, b \in NoiseCoords, c \in NoiseCoords}
    /\ t = 0
    /\ colour = Zero
    /\ nval = 0
    /\ fval = 0
    /\ pc = "call"
    /\ MainIdle /\ TraceIdle

CallNoise ==
    /\ pc = "call"
    /\ nval' = noise(arg)
    /\ pc' = "noise"
    /\ UNCHANGED <<t, arg, colour, fval, mainVars, traceVars>>

CallFbm ==
    /\ pc = "noise"
    /\ fval' = fractal_brownian_motion(arg)
    /\ pc' = "fbm"
    /\ UNCHANGED <<t, arg, colour, nval, mainVars, traceVars>>

NoiseNext == CallNoise \/ CallFbm

SpecNoise == NoiseInit /\ [][NoiseNext]_vars

\* ------------------------------------------------------------------------
\* Properties
\* ------------------------------------------------------------------------
\* the ray of the pixel under study
Dir == PixelDir(pix)

\* the closest approach of the ray (orig, dir) to the origin exceeds the radius
ClosestApproachExceeds(orig, dir) ==
    Dot(orig, orig) - FMul(Dot(orig, dir), Dot(orig, dir))
        > FMul(SPHERE_RADIUS, SPHERE_RADIUS)

\* C1: a ray whose closest approach to the origin exceeds the sphere radius
\* makes sphere_trace return false with signed_distance never evaluated and
\* *pos never written.
C1_EarlyDiscardSkipsMarch ==
    (useGuard /\ pc # "main" /\ ClosestApproachExceeds(Camera, Dir)) =>
        /\ pc \in {"entry", "returned", "done"}
        /\ evals = 0
        /\ trail = <<>>
        /\ pos = Zero
        /\ ret = FALSE

C1_Witness ==
    /\ useGuard
    /\ ClosestApproachExceeds(Camera, Dir)
    /\ pc = "returned"
    /\ ret = FALSE
    /\ evals = 0

\* C2: palette_fire returns gray for every t <= 0, yellow for every t >= 1,
\* and on [0.75, 1] the interpolation from orange to yellow at the local
\* fractional position 4t - 3.
C2_PaletteEndpoints ==
    pc = "ret" =>
        /\ t <= 0 => colour = gray
        /\ t >= S => colour = yellow
        /\ (t >= 750 /\ t <= S) =>
              colour = VAdd(orange, VScale(VSub(yellow, orange), 4 * t - 3 * S))

\* the stop colour named for a segment boundary
StopColour(b) == IF b = 250 THEN darkgray ELSE IF b = 500 THEN red ELSE orange

\* the segment that ends at boundary b, and the one that starts there
SegmentEndingAt(b, x) ==
    IF b = 250 THEN Segment0(x) ELSE IF b = 500 THEN Segment1(x) ELSE Segment2(x)

SegmentStartingAt(b, x) ==
    IF b = 250 THEN Segment1(x) ELSE IF b = 500 THEN Segment2(x) ELSE Segment3(x)

Near(u, v, tol) ==
    /\ Abs(u.x - v.x) <= tol
    /\ Abs(u.y - v.y) <= tol
    /\ Abs(u.z - v.z) <= tol

\* C3: at each boundary 0.25, 0.5, 0.75 the segment ending there and the
\* segment starting there both give the named stop colour, which is the value
\* of palette_fire there; one thousandth to either side the value has moved
\* by no more than the slope of the ramp allows.
C3_PaletteContinuous ==
    pc = "ret" =>
        \A b \in {250, 500, 750} :
            /\ t = b =>
                  /\ colour = StopColour(b)
                  /\ SegmentEndingAt(b, t) = StopColour(b)
                  /\ SegmentStartingAt(b, t) = StopColour(b)
            /\ (t = b - 1 \/ t = b + 1) => Near(colour, StopColour(b), 5)

C3_Witness == pc = "ret" /\ t = 749 /\ Near(colour, orange, 5) /\ colour # orange

\* C4: a pixel whose sphere_trace call returned false holds exactly the
\* background colour (0.2, 0.7, 0.8) in the framebuffer and the bytes
\* (51, 178, 204) in the file.
C4_MissIsBackground ==
    \A idx \in missed :
        /\ writes[idx] >= 1 => framebuffer[idx] = Vec3d(200, 700, 800)
        /\ Written(idx) => FileBytes(idx) = <<51, 178, 204>>

C4_Witness ==
    /\ phase = "closed"
    /\ \E idx \in missed :
          ClosestApproachExceeds(Camera, PixelDir(idx)) /\ FileBytes(idx) = <<51, 178, 204>>
    /\ \E idx \in missed :
          ~ClosestApproachExceeds(Camera, PixelDir(idx)) /\ FileBytes(idx) = <<51, 178, 204>>

\* C5: every byte written is floor(255 * clamp(c, 0, 1)) of its colour
\* component c: 255 above 1.0, 0 below 0, never wrapped.
C5_ByteIsClampedComponent ==
    \A idx \in Pixels :
        Written(idx) =>
            \A j \in 0 .. 2 :
                FileBytes(idx)[j + 1]
                    = (255 * FMin(FMax(Component(framebuffer[idx], j), 0), S)) \div S

C5_Witness ==
    /\ phase = "closed"
    /\ \E idx \in Pixels :
          /\ framebuffer[idx] = Vec3d(1700, -300, 500)
          /\ FileBytes(idx) = <<255, 0, 127>>

\* C6: whatever the interleaving of the worker threads, slot idx is assigned
\* at most once, is untouched until its own task assigns it, and once the
\* loop has ended the framebuffer is the one a single-threaded loop builds
\* from the index alone.
C6_ScheduleIndependent ==
    /\ \A idx \in Pixels :
          /\ writes[idx] <= 1
          /\ writes[idx] = 0 => framebuffer[idx] = Zero
    /\ phase # "render" =>
          /\ \A idx \in Pixels : writes[idx] = 1
          /\ framebuffer = ColourOf

C6_Witness ==
    /\ phase = "render"
    /\ writes[ChunkStart(1)] = 1
    /\ writes[0] = 0
    /\ local[0].called
    /\ framebuffer[ChunkStart(1)] = ColourOf[ChunkStart(1)]

C8_DiscardIsOptimisation ==
    (pc = "done" /\ ~useGuard) =>
        /\ ret = TraceOf[pix].hit
        /\ frame = ColourOf[pix]

C8_Witness ==
    /\ pc = "done"
    /\ ~useGuard
    /\ ClosestApproachExceeds(Camera, Dir)
    /\ evals = MaxSteps
    /\ frame = Background

\* noise as claimed: per-component smoothstep f * f * (3 - 2f) of the
\* fractional part, used as the weights of the interpolation
Smoothstep(f) ==
    Vec3d(FMul(FMul(f.x, f.x), 3 * S - 2 * f.x),
          FMul(FMul(f.y, f.y), 3 * S - 2 * f.y),
          FMul(FMul(f.z, f.z), 3 * S - 2 * f.z))

\* C9: noise(p) is the trilinear interpolation of the eight corner hashes
\* weighted by the per-component smoothstep of the fractional part of p.
C9_NoiseSmoothstep ==
    pc \in {"noise", "fbm"} =>
        nval = Trilinear(LatticeIndex(Cell(arg)), Smoothstep(Fract(arg, Cell(arg))))

\* pos + dir * max(0.1 * d, 0.01)
NextPosition(p, dir, dist) ==
    Vec3d(p.x + FMul(dir.x, FMax(FMul(dist, 100), 10)),
          p.y + FMul(dir.y, FMax(FMul(dist, 100), 10)),
          p.z + FMul(dir.z, FMax(FMul(dist, 100), 10)))

\* the positions evaluated start at orig and advance by the rule above
TrailFollowsRule ==
    \A k \in 1 .. Len(trail) :
        /\ trail[k].p = IF k = 1 THEN Camera
                        ELSE NextPosition(trail[k - 1].p, Dir, trail[k - 1].dist)
        /\ k < Len(trail) => trail[k].dist >= 0

C10_Safe ==
    (pc # "main" /\ ~ClosestApproachExceeds(Camera, Dir)) =>
        /\ evals <= MaxSteps
        /\ evals = Len(trail)
        /\ pc \in {"returned", "done"} =>
              /\ TrailFollowsRule
              /\ IF ret
                 THEN /\ evals >= 1
                      /\ trail[evals].dist < 0
                      /\ trail[evals].p = pos
                 ELSE /\ evals = MaxSteps
                      /\ trail[evals].dist >= 0
        /\ pc = "done" =>
              \A k \in 1 .. Len(trail) : trail[k].dist = signed_distance(trail[k].p)

\* what is left of the call: the loop iterations not yet run, then the return
\* and the assignment to *frame
Remaining ==
    IF pc = "entry" THEN MaxSteps + 3
    ELSE IF pc = "loop" THEN MaxSteps - i + 2
    ELSE IF pc = "returned" THEN 1
    ELSE 0

\* C10: for a ray that passes the entry guard sphere_trace returns after at
\* most 128 evaluations of signed_distance (every step uses up part of a
\* bounded budget); it returns hit with pos at the first evaluated position
\* of negative distance, and miss exactly when all 128 evaluated positions
\* have a non-negative distance.
C10_TraceTerminates == []C10_Safe /\ [][Remaining' < Remaining]_vars

C10_Witness ==
    /\ pc = "done"
    /\ useGuard
    /\ ~ClosestApproachExceeds(Camera, Dir)
    /\ ~ret
    /\ evals = MaxSteps
====
